---- MODULE Spec2Model ----
(***************************************************************************)
(* Model of public/script.js: a p5.js sketch with a cols x rows grid whose *)
(* cells are toggled by clicks while paused, a click-triggered recursive   *)
(* "glitch" wave carried by setTimeout callbacks, a glitch session and an  *)
(* RGB overlay window timed against millis(), and a beat detector that     *)
(* sets per-cell flash counters from the audio level.                      *)
(*                                                                         *)
(* Reals are modelled exactly as scaled integers or fractions:             *)
(*   audio levels       in thousandths          (0.35  ->  350)            *)
(*   slider strength    in hundredths           (0.5   ->  50)             *)
(*   slider speed and t in thousandths          (0.01  ->  10)             *)
(*   noise samples      as v / NoiseDen, v \in 0..NoiseDen                 *)
(*   colWidths/rowHeights as fractions num[k] / den with a shared den      *)
(* Floating-point rounding is not modelled.  Rendering calls (fill, rect,  *)
(* image) and the sound samples / echo effect have no effect on the state  *)
(* modelled here and are left out.                                         *)
(***************************************************************************)
EXTENDS Integers, Sequences, FiniteSets, TLC

(* ------------------------------ bounds --------------------------------- *)
\* grid dimensions (15 x 10 in the sketch)
cols == 4
rows == 2
\* number of clicks on the grid the user makes
MaxClicks == 2
\* number of cells the user has filled before the run starts
MaxPainted == 4
\* wall-clock horizon (ms)
MaxTime == 1200
\* horizon of the noise time parameter t (thousandths)
MaxT == 20
\* resolution of the noise samples
NoiseDen == 2
\* number of pause timeouts pending at once
MaxPending == 2

(* ------------------------- program constants --------------------------- *)
width == 1200
height == 800
contrast == 3
glitchDuration == 1000
glitchOverlayDuration == 300
\* spreadGlitch(ci, rj, 3)
ClickDepth == 3
\* setTimeout(..., 40)
SpreadDelay == 40
\* setTimeout(() => bgMusic.pause(), 500)
PauseDelay == 500
\* beatFlash[i][j] = 4
FlashFrames == 4
\* level - lastLevel > 0.1, in thousandths
BeatThreshold == 100
\* map(level, 0, 0.4, 0, 15): upper end of the input range, in thousandths
MapInHi == 400
MapOutHi == 15

(* ------------------------------ helpers -------------------------------- *)
Cells == (0 .. cols - 1) \X (0 .. rows - 1)

InGrid(i, j) == i >= 0 /\ i < cols /\ j >= 0 /\ j < rows

Abs(x) == IF x < 0 THEN -x ELSE x

Max(a, b) == IF a >= b THEN a ELSE b

\* Chebyshev distance between two cells
Cheb(c, d) == Max(Abs(c[1] - d[1]), Abs(c[2] - d[2]))

SeqToSet(s) == {s[k] : k \in 1 .. Len(s)}

RECURSIVE Gcd(_, _)
Gcd(a, b) == IF b = 0 THEN a ELSE Gcd(b, a % b)

RECURSIVE Pow(_, _)
Pow(b, e) == IF e = 0 THEN 1 ELSE b * Pow(b, e - 1)

RECURSIVE SumTo(_, _)
\* f[0] + ... + f[n-1]
SumTo(f, n) == IF n = 0 THEN 0 ELSE SumTo(f, n - 1) + f[n - 1]

RECURSIVE GcdTo(_, _)
\* gcd of f[0], ..., f[n-1]
GcdTo(f, n) == IF n = 0 THEN 0 ELSE Gcd(GcdTo(f, n - 1), f[n - 1])

VARIABLES
  grid,                \* grid[<<i,j>>]: is the cell filled
  beatFlash,           \* beatFlash[<<i,j>>]: remaining flash frames
  colWidths,           \* [num, den]: colWidths[i] = num[i] / den
  rowHeights,          \* [num, den]: rowHeights[j] = num[j] / den
  t,                   \* noise time parameter
  playing,
  glitchActive,
  glitchCells,         \* sequence of cells <<i,j>>, duplicates kept
  glitchStart,
  glitchOverlayStart,
  glitchOverlayActive,
  lastLevel,
  flashCount,          \* draw's local flashCount, as computed in the last frame
  now,                 \* millis()
  timers,              \* pending spreadGlitch timeouts, in scheduling order
  bgMusic,             \* the background track: "stopped", "looping" or "paused"
  pauseTimers,         \* due times of the pending bgMusic.pause() timeouts
  nClicks,             \* clicks on the grid so far (bounded by MaxClicks)
  wave                 \* history: the cell of the last playing-mode click (org), whether no
                       \* spread timeout was pending at that click (alone), and whether the
                       \* grid is unchanged since (still)

vars == <<grid, beatFlash, colWidths, rowHeights, t, playing, glitchActive,
          glitchCells, glitchStart, glitchOverlayStart, glitchOverlayActive,
          lastLevel, flashCount, now, timers, bgMusic, pauseTimers, nClicks, wave>>


(* ----------------------------- partition ------------------------------- *)
\* a size vector num[0..n-1] / den, reduced to lowest terms
Reduce(num, n, den) ==
  LET g == Gcd(GcdTo(num, n), den)
  IN  [num |-> [k \in 0 .. n - 1 |-> num[k] \div g], den |-> den \div g]

\* the weight without the strength factor
RawWeightNoStrength(v, strength) == Pow(v, contrast) * 100 + Pow(NoiseDen, contrast)

\* rawC[i] = pow(n, contrast) * strengthSlider.value() + 0.0001,
\* scaled by 10000 * NoiseDen^contrast
RawWeight(v, strength) == Pow(v, contrast) * strength * 100 + Pow(NoiseDen, contrast)

\* the weights normalised by the sum of all but the last of them
ComputeSizesShortSum(noise, strength, n, extent) ==
  Reduce([k \in 0 .. n - 1 |-> RawWeight(noise[k], strength) * extent], n,
         SumTo([k \in 0 .. n - 1 |-> RawWeight(noise[k], strength)], n - 1))

\* colWidths[i] = rawC[i] / sumC * width
ComputeSizes(noise, strength, n, extent) ==
  Reduce([k \in 0 .. n - 1 |-> RawWeight(noise[k], strength) * extent], n,
         SumTo([k \in 0 .. n - 1 |-> RawWeight(noise[k], strength)], n))

RECURSIVE LocateNoLower(_, _, _, _)
\* the scan without the test mouse >= acc
LocateNoLower(p, n, mouse, i) ==
  IF i >= n THEN -1
  ELSE IF mouse * p.den < SumTo(p.num, i) + p.num[i]
       THEN i
       ELSE LocateNoLower(p, n, mouse, i + 1)

RECURSIVE Locate(_, _, _, _)
\* the scan of mousePressed: first index k >= i with
\* mouse >= acc and mouse < acc + size[k], or -1
Locate(p, n, mouse, i) ==
  IF i >= n THEN -1
  ELSE IF mouse * p.den >= SumTo(p.num, i) /\ mouse * p.den < SumTo(p.num, i) + p.num[i]
       THEN i
       ELSE Locate(p, n, mouse, i + 1)

(* ------------------------------- setup --------------------------------- *)
NoCell == <<-1, -1>>

Init ==
  /\ grid = [c \in Cells |-> FALSE]
  /\ beatFlash = [c \in Cells |-> 0]
  /\ colWidths = Reduce([k \in 0 .. cols - 1 |-> width], cols, cols)
  /\ rowHeights = Reduce([k \in 0 .. rows - 1 |-> height], rows, rows)
  /\ t = 0
  /\ playing = FALSE
  /\ glitchActive = FALSE
  /\ glitchCells = <<>>
  /\ glitchStart = 0
  /\ glitchOverlayStart = 0
  /\ glitchOverlayActive = FALSE
  /\ lastLevel = 0
  /\ flashCount = 0
  /\ now = 0
  /\ timers = <<>>
  /\ bgMusic = "stopped"
  /\ pauseTimers = <<>>
  /\ nClicks = 0
  /\ wave = [org |-> NoCell, alone |-> FALSE, still |-> FALSE]

\* the sketch after setup, after the user has filled up to MaxPainted cells
\* in any pattern (paused clicks) and has then pressed Play, before the
\* clicks counted by nClicks
InitPainted ==
  /\ grid \in {g \in [Cells -> BOOLEAN] : Cardinality({c \in Cells : g[c]}) <= MaxPainted}
  /\ beatFlash = [c \in Cells |-> 0]
  /\ colWidths = Reduce([k \in 0 .. cols - 1 |-> width], cols, cols)
  /\ rowHeights = Reduce([k \in 0 .. rows - 1 |-> height], rows, rows)
  /\ t = 0
  /\ playing = TRUE
  /\ glitchActive = FALSE
  /\ glitchCells = <<>>
  /\ glitchStart = 0
  /\ glitchOverlayStart = 0
  /\ glitchOverlayActive = FALSE
  /\ lastLevel = 0
  /\ flashCount = 0
  /\ now = 0
  /\ timers = <<>>
  /\ bgMusic = "looping"
  /\ pauseTimers = <<>>
  /\ nClicks = 0
  /\ wave = [org |-> NoCell, alone |-> FALSE, still |-> FALSE]

(* ---------------------------- spreadGlitch ----------------------------- *)
\* spreadGlitch without the test of grid[i][j]
spreadGlitchUnfilled(st, i, j, depth, org) ==
  IF depth <= 0 \/ ~InGrid(i, j) THEN st
  ELSE [cells |-> Append(st.cells, <<i, j>>),
        tm |-> Append(st.tm, [i |-> i, j |-> j, depth |-> depth,
                              due |-> now + SpreadDelay, org |-> org])]

\* spreadGlitch without the test of depth
spreadGlitchAnyDepth(st, i, j, depth, org) ==
  IF ~InGrid(i, j) THEN st
  ELSE IF ~grid[<<i, j>>] THEN st
  ELSE [cells |-> Append(st.cells, <<i, j>>),
        tm |-> Append(st.tm, [i |-> i, j |-> j, depth |-> depth,
                              due |-> now + SpreadDelay, org |-> org])]

\* One call spreadGlitch(i, j, depth) acting on st = [cells, tm], the glitch
\* list and the timer queue; org is the cell of the click that started the
\* wave (history only).
spreadGlitch(st, i, j, depth, org) ==
  IF depth <= 0 \/ ~InGrid(i, j) THEN st
  ELSE IF ~grid[<<i, j>>] THEN st
  ELSE [cells |-> Append(st.cells, <<i, j>>),
        tm |-> Append(st.tm, [i |-> i, j |-> j, depth |-> depth,
                              due |-> now + SpreadDelay, org |-> org])]

\* the loops stopping short of di = 1
OffsetsShort == << <<-1, -1>>, <<-1, 0>>, <<-1, 1>>, <<0, -1>>, <<0, 1>> >>

\* the (di, dj) pairs in the order of the two nested loops
Offsets == << <<-1, -1>>, <<-1, 0>>, <<-1, 1>>, <<0, -1>>,
              <<0, 1>>, <<1, -1>>, <<1, 0>>, <<1, 1>> >>

RECURSIVE SpreadNeighboursSameDepth(_, _, _, _, _, _)
\* the callback passing depth on instead of depth - 1
SpreadNeighboursSameDepth(st, i, j, depth, org, k) ==
  IF k > Len(Offsets) THEN st
  ELSE SpreadNeighboursSameDepth(
         spreadGlitch(st, i + Offsets[k][1], j + Offsets[k][2], depth, org),
         i, j, depth, org, k + 1)

RECURSIVE SpreadNeighbours(_, _, _, _, _, _)
\* the body of the timeout callback, from the k-th neighbour on
SpreadNeighbours(st, i, j, depth, org, k) ==
  IF k > Len(Offsets) THEN st
  ELSE SpreadNeighbours(
         spreadGlitch(st, i + Offsets[k][1], j + Offsets[k][2], depth - 1, org),
         i, j, depth, org, k + 1)

\* a timeout that spreads only while the glitch session is active
SpreadTimeoutLive ==
  /\ timers # <<>>
  /\ Head(timers).due <= now
  /\ LET h == Head(timers)
         st == IF glitchActive
               THEN SpreadNeighbours([cells |-> glitchCells, tm |-> Tail(timers)],
                                     h.i, h.j, h.depth, h.org, 1)
               ELSE [cells |-> glitchCells, tm |-> Tail(timers)]
     IN  /\ glitchCells' = st.cells
         /\ timers' = st.tm
  /\ UNCHANGED <<grid, beatFlash, colWidths, rowHeights, t, playing, glitchActive,
                 glitchStart, glitchOverlayStart, glitchOverlayActive,
                 lastLevel, flashCount, now, bgMusic, pauseTimers, nClicks, wave>>

\* a pending spread timeout fires: timeouts of equal delay run in the order
\* they were scheduled, none before it is due, possibly later
SpreadTimeout ==
  /\ timers # <<>>
  /\ Head(timers).due <= now
  /\ LET h == Head(timers)
         st == SpreadNeighbours([cells |-> glitchCells, tm |-> Tail(timers)],
                                h.i, h.j, h.depth, h.org, 1)
     IN  /\ glitchCells' = st.cells
         /\ timers' = st.tm
  /\ UNCHANGED <<grid, beatFlash, colWidths, rowHeights, t, playing, glitchActive,
                 glitchStart, glitchOverlayStart, glitchOverlayActive,
                 lastLevel, flashCount, now, bgMusic, pauseTimers, nClicks, wave>>

(* ---------------------------- mousePressed ----------------------------- *)
\* every click starts a glitch
GlitchModeAlways == TRUE

\* if (playing): the click starts a glitch, else it toggles the cell
GlitchMode == playing

\* the list is not reset
KeptCells == glitchCells

\* glitchCells = []
ClearedCells == <<>>

\* the click fills the cell instead of flipping it
ToggleFill(g, c) == [g EXCEPT ![c] = TRUE]

\* grid[ci][rj] = !grid[ci][rj]
Toggle(g, c) == [g EXCEPT ![c] = ~g[c]]

mousePressed(mouseX, mouseY) ==
  /\ nClicks < MaxClicks
  /\ LET ci == Locate(colWidths, cols, mouseX, 0)
         rj == Locate(rowHeights, rows, mouseY, 0)
     IN  IF ci >= 0 /\ rj >= 0
         THEN /\ nClicks' = nClicks + 1
              /\ IF GlitchMode
                 THEN LET st == spreadGlitch([cells |-> ClearedCells, tm |-> timers],
                                             ci, rj, ClickDepth, <<ci, rj>>)
                      IN  /\ glitchCells' = st.cells
                          /\ timers' = st.tm
                          /\ glitchActive' = TRUE
                          /\ glitchStart' = now
                          /\ glitchOverlayActive' = TRUE
                          /\ glitchOverlayStart' = now
                          /\ wave' = [org |-> <<ci, rj>>, alone |-> timers = <<>>, still |-> TRUE]
                          /\ UNCHANGED grid
                 ELSE /\ grid' = Toggle(grid, <<ci, rj>>)
                      /\ wave' = [wave EXCEPT !.still = FALSE]
                      /\ UNCHANGED <<glitchCells, timers, glitchActive, glitchStart,
                                     glitchOverlayActive, glitchOverlayStart>>
         ELSE UNCHANGED <<grid, glitchCells, timers, glitchActive, glitchStart,
                          glitchOverlayActive, glitchOverlayStart, wave, nClicks>>
  /\ UNCHANGED <<beatFlash, colWidths, rowHeights, t, playing, lastLevel,
                 flashCount, now, bgMusic, pauseTimers>>

(* ------------------------------ buttons -------------------------------- *)
\* the Play/Pause button.  Play: bgMusic.loop(); Pause: the fade-out, and
\* bgMusic.pause() scheduled PauseDelay ms ahead.  The volume is not modelled.
PlayPause ==
  /\ playing' = ~playing
  /\ IF playing'
     THEN /\ bgMusic' = "looping"
          /\ UNCHANGED pauseTimers
     ELSE /\ Len(pauseTimers) < MaxPending
          /\ pauseTimers' = Append(pauseTimers, now + PauseDelay)
          /\ UNCHANGED bgMusic
  /\ UNCHANGED <<grid, beatFlash, colWidths, rowHeights, t, glitchActive,
                 glitchCells, glitchStart, glitchOverlayStart, glitchOverlayActive,
                 lastLevel, flashCount, now, timers, nClicks, wave>>

\* the timeout scheduled by a Pause press fires: bgMusic.pause()
PauseTimeout ==
  /\ pauseTimers # <<>>
  /\ Head(pauseTimers) <= now
  /\ bgMusic' = "paused"
  /\ pauseTimers' = Tail(pauseTimers)
  /\ UNCHANGED <<grid, beatFlash, colWidths, rowHeights, t, playing, glitchActive,
                 glitchCells, glitchStart, glitchOverlayStart, glitchOverlayActive,
                 lastLevel, flashCount, now, timers, nClicks, wave>>

\* a Clear that also zeroes the flash counters
ClearFlashToo ==
  /\ grid' = [c \in Cells |-> FALSE]
  /\ beatFlash' = [c \in Cells |-> 0]
  /\ wave' = [wave EXCEPT !.still = wave.still /\ grid' = grid]
  /\ UNCHANGED <<colWidths, rowHeights, t, playing, glitchActive,
                 glitchCells, glitchStart, glitchOverlayStart, glitchOverlayActive,
                 lastLevel, flashCount, now, timers, bgMusic, pauseTimers, nClicks>>

\* the Clear button
Clear ==
  /\ grid' = [c \in Cells |-> FALSE]
  /\ wave' = [wave EXCEPT !.still = wave.still /\ grid' = grid]
  /\ UNCHANGED <<beatFlash, colWidths, rowHeights, t, playing, glitchActive,
                 glitchCells, glitchStart, glitchOverlayStart, glitchOverlayActive,
                 lastLevel, flashCount, now, timers, bgMusic, pauseTimers, nClicks>>

(* -------------------------------- draw --------------------------------- *)
\* floor(map(level, 0, 0.4, 0, 15)) with map(n, a, b, c, d) = (n-a)/(b-a)*(d-c)+c
FlashCountOf(level) == (level * MapOutHi) \div MapInHi

\* threshold compared with >=
IsBeatAtLeast(level, last) == level - last >= BeatThreshold

\* level - lastLevel > 0.1
IsBeat(level, last) == level - last > BeatThreshold

\* decrement without the test beatFlash[i][j] > 0
TickFlashUnguarded(bf) == [c \in Cells |-> bf[c] - 1]

\* the render pass on the flash counters: beatFlash[i][j]-- where it is > 0
TickFlash(bf) == [c \in Cells |-> IF bf[c] > 0 THEN bf[c] - 1 ELSE bf[c]]

\* the k-loop of the beat branch: every picked cell gets FlashFrames
SetFlash(bf, picks) == [c \in Cells |-> IF c \in picks THEN FlashFrames ELSE bf[c]]

\* Values of floor(random(cols)) and floor(random(rows)) taken together:
\* the draws are enumerated at the two ends of their range, the first cell
\* and the last cell of the grid.
RandomCells == {<<0, 0>>, <<cols - 1, rows - 1>>}

\* sets of cells that flashCount random draws can hit
PickSets(fc) == {S \in SUBSET RandomCells : S # {} /\ Cardinality(S) <= fc}

\* expiry compared with >=
ExpiredEarly == glitchActive /\ now >= glitchStart + glitchDuration

\* if (glitchActive && millis() > glitchStart + glitchDuration)
Expired == glitchActive /\ now > glitchStart + glitchDuration

\* the cell loop testing the glitch list before the flash counter
RenderModeGlitchFirst(c, bf, active, cells) ==
  IF active /\ c \in SeqToSet(cells) THEN "glitch"
  ELSE IF bf[c] > 0 THEN "flash"
  ELSE IF active THEN "inverted"
  ELSE "normal"

\* The branch of the cell loop that draws cell c, given the flash counters,
\* glitchActive and glitchCells as they are when the loop runs: the flash
\* branch ends with continue, inGlitch is glitchActive && glitchCells.some(...)
RenderMode(c, bf, active, cells) ==
  IF bf[c] > 0 THEN "flash"
  ELSE IF active /\ c \in SeqToSet(cells) THEN "glitch"
  ELSE IF active THEN "inverted"
  ELSE "normal"

\* the modes in which a frame run now draws the cells: the cell loop comes
\* after the expiry test and before the beat branch
Rendered ==
  [c \in Cells |-> RenderMode(c, beatFlash, glitchActive /\ ~Expired,
                              IF Expired THEN <<>> ELSE glitchCells)]

\* One frame.  level is amplitude.getLevel(), picks the set of cells drawn at
\* random in the beat branch, speed and strength the slider values, nC and nR
\* the noise samples for the columns and rows.
draw(level, picks, speed, strength, nC, nR) ==
  /\ glitchActive' = IF Expired THEN FALSE ELSE glitchActive
  /\ glitchCells' = IF Expired THEN <<>> ELSE glitchCells
  /\ IF playing
     THEN t + speed <= MaxT /\ t' = t + speed
     ELSE t' = t
  /\ colWidths' = ComputeSizes(nC, strength, cols, width)
  /\ rowHeights' = ComputeSizes(nR, strength, rows, height)
  /\ flashCount' = FlashCountOf(level)
  /\ IF IsBeat(level, lastLevel)
     THEN /\ picks \in PickSets(FlashCountOf(level))
          /\ beatFlash' = SetFlash(TickFlash(beatFlash), picks)
     ELSE /\ picks = {}
          /\ beatFlash' = TickFlash(beatFlash)
  /\ lastLevel' = level
  /\ UNCHANGED <<grid, playing, glitchStart, glitchOverlayStart,
                 glitchOverlayActive, now, timers, bgMusic, pauseTimers,
                 nClicks, wave>>

\* is the RGB overlay drawn in a frame rendered now
OverlayShown == glitchOverlayActive /\ now - glitchOverlayStart < glitchOverlayDuration

(* -------------------------------- time --------------------------------- *)
\* millis() advances by dt.  The horizon MaxTime bounds idle waiting, not the
\* wait for a pending spread timeout to fall due (there are finitely many).
Tick(dt) ==
  /\ now + dt <= MaxTime \/ (timers # <<>> /\ dt = Head(timers).due - now)
  /\ now' = now + dt
  /\ UNCHANGED <<grid, beatFlash, colWidths, rowHeights, t, playing, glitchActive,
                 glitchCells, glitchStart, glitchOverlayStart, glitchOverlayActive,
                 lastLevel, flashCount, timers, bgMusic, pauseTimers, nClicks, wave>>

(* ------------------------- environment inputs -------------------------- *)
\* Steps of the wall clock between events (ms): to the moment the next
\* spread timeout or the next pause timeout falls due, or one glitch duration
\* ahead (timeouts may therefore run late by any multiple of it).
TimeSteps ==
  {glitchDuration} \cup
  (IF timers # <<>> /\ Head(timers).due > now THEN {Head(timers).due - now} ELSE {}) \cup
  (IF pauseTimers # <<>> /\ Head(pauseTimers) > now
   THEN {Head(pauseTimers) - now} ELSE {})

\* pointer positions: the centres of the first two columns and of the first
\* row of the uniform partition, and one position off each side of the canvas
MouseXs == {width \div (2 * cols), (3 * width) \div (2 * cols), -1, width}
MouseYs == {height \div (2 * rows), -1, height}

\* audio levels (thousandths)
Levels == {0, 100, 150, 350, 400, 1000}

\* all picks a frame can make
AllPicks == SUBSET RandomCells

ConstNoise(n) == [k \in 0 .. n - 1 |-> NoiseDen]

\* noise samples along one axis: every vector of values v / NoiseDen
NoiseVecs(n) == [0 .. n - 1 -> 0 .. NoiseDen]

\* values of the strength slider (hundredths): both ends, the smallest step
\* and the default
Strengths == {0, 1, 50, 100}

\* the default of the speed slider (thousandths)
DefaultSpeed == 10

\* noise fields that skew the partition: all of the extent on the first
\* slot, and samples rising along the axis
Spike(n) == [k \in 0 .. n - 1 |-> IF k = 0 THEN NoiseDen ELSE 0]
Ramp(n) == [k \in 0 .. n - 1 |-> k % (NoiseDen + 1)]
SkewVecs(n) == {ConstNoise(n), Spike(n), Ramp(n)}

\* the strength slider at its maximum (hundredths)
FullStrength == 100

\* pointer positions on the slot boundaries of the uniform partition, at
\* both edges of the canvas and one pixel off them
ClickXs == {-1, 0, width \div cols, width \div 2, width - 1, width}
ClickYs == {-1, 0, height \div 2, height - 1, height}

Click == \E x \in MouseXs, y \in MouseYs : mousePressed(x, y)

Time == \E dt \in TimeSteps : Tick(dt)

\* a frame with the audio silent and the sliders at speed 0, strength 0
QuietFrame == draw(0, {}, 0, 0, ConstNoise(cols), ConstNoise(rows))

\* a frame with any audio level, sliders as in QuietFrame
BeatFrame ==
  \E level \in Levels, picks \in AllPicks :
    draw(level, picks, 0, 0, ConstNoise(cols), ConstNoise(rows))

(* --------------------------- specifications ---------------------------- *)
\* clicks, buttons, spread timeouts and frames, audio silent
Next == Click \/ PlayPause \/ PauseTimeout \/ Clear \/ SpreadTimeout \/ QuietFrame \/ Time

Spec == Init /\ [][Next]_vars

\* frames driven by the audio level, mouse untouched
NextBeat == BeatFrame \/ PlayPause \/ PauseTimeout \/ Time

SpecBeat == Init /\ [][NextBeat]_vars

\* clicks, Clear, spread timeouts and frames while playing, on a grid the
\* user has painted beforehand
NextWave == Click \/ Clear \/ SpreadTimeout \/ QuietFrame \/ Time

SpecWave == InitPainted /\ [][NextWave]_vars

\* Spec with the frame loop running: p5 calls draw again and again
SpecFair == Spec /\ WF_vars(QuietFrame)

\* The waves alone, on a painted grid while playing: clicks, the clock and
\* the spread timeouts.  The clock runs and the event loop serves the timeout
\* queue: a pending timeout falls due and, once due, runs.
NextQueue == Click \/ SpreadTimeout \/ Time

SpecQueue == InitPainted /\ [][NextQueue]_vars /\ WF_vars(Time) /\ WF_vars(SpreadTimeout)

\* A frame with the audio silent, any strength and a noise field that varies
\* along the columns or along the rows.  noise() is not modelled: a frame may
\* see any samples, whatever t is.
LayoutFrame ==
  \E strength \in Strengths :
    \/ \E nC \in NoiseVecs(cols) :
         draw(0, {}, DefaultSpeed, strength, nC, ConstNoise(rows))
    \/ \E nR \in NoiseVecs(rows) :
         draw(0, {}, DefaultSpeed, strength, ConstNoise(cols), nR)

\* the partition driven by the noise field and the strength slider
NextLayout == LayoutFrame

SpecLayout == Init /\ [][NextLayout]_vars

\* a frame with the strength slider at 0 and a noise field that varies along
\* the columns or along the rows
StillFrame ==
  \/ \E nC \in NoiseVecs(cols) : draw(0, {}, DefaultSpeed, 0, nC, ConstNoise(rows))
  \/ \E nR \in NoiseVecs(rows) : draw(0, {}, DefaultSpeed, 0, ConstNoise(cols), nR)

\* the sketch with the strength slider left at 0
NextStill == StillFrame \/ PlayPause \/ PauseTimeout \/ Time

SpecStill == Init /\ [][NextStill]_vars

\* a frame that recomputes the partition from a skewed noise field
SkewFrame ==
  \E nC \in SkewVecs(cols), nR \in SkewVecs(rows) :
    draw(0, {}, 0, FullStrength, nC, nR)

ClickAnywhere == \E x \in ClickXs, y \in ClickYs : mousePressed(x, y)

\* clicks anywhere on and around the canvas, on partitions of any skew, in
\* both modes; the clock stands still
NextClick == ClickAnywhere \/ SkewFrame \/ PlayPause

SpecClick == Init /\ [][NextClick]_vars

\* a frame with the audio silent or at the top of the mapped range
LoudFrame ==
  \E level \in {0, MapInHi}, picks \in AllPicks :
    draw(level, picks, 0, 0, ConstNoise(cols), ConstNoise(rows))

\* clicks, both buttons and frames with beats; the clock stands still
NextClear == Click \/ PlayPause \/ Clear \/ LoudFrame

SpecClear == Init /\ [][NextClear]_vars

(* ------------------------------ properties ----------------------------- *)
\* A step taken by draw: it changes the state but none of the variables
\* that draw leaves alone (every other handler changes one of them).
FrameStep ==
  /\ vars' # vars
  /\ UNCHANGED <<grid, playing, glitchStart, glitchOverlayStart,
                 glitchOverlayActive, now, timers, bgMusic, pauseTimers,
                 nClicks, wave>>

\* A step taken by a click on the grid.
ClickStep == nClicks' # nClicks

\* the cells a step appends to glitchCells: the new tail when the old list
\* is a prefix of the new one, the whole new list when the list was reset
IsPrefix(a, b) == Len(a) <= Len(b) /\ \A k \in 1 .. Len(a) : a[k] = b[k]

Appended ==
  IF IsPrefix(glitchCells, glitchCells')
  THEN {glitchCells'[k] : k \in Len(glitchCells) + 1 .. Len(glitchCells')}
  ELSE SeqToSet(glitchCells')

\* C1 (glitch gating): every cell a step appends to glitchCells is inside the
\* grid and filled at the moment of the append; no unfilled or out-of-range
\* cell is ever appended.
GlitchGating == [][\A c \in Appended : InGrid(c[1], c[2]) /\ grid[c] /\ grid'[c]]_vars

\* a finished wave that recorded two cells and stopped at an unfilled neighbour
GlitchGatingWitness ==
  /\ timers = <<>>
  /\ Cardinality(SeqToSet(glitchCells)) >= 2
  /\ \E c \in SeqToSet(glitchCells), d \in Cells :
       Cheb(c, d) = 1 /\ ~grid[d] /\ d \notin SeqToSet(glitchCells)

\* C2 (depth bound): every pending spread timeout belongs to a recorded cell
\* inside the grid, carries a depth in 1..ClickDepth and lies within
\* ClickDepth - depth of its wave's origin (so within ClickDepth - 1 = 2);
\* the cells of a wave started with no other wave pending all lie within
\* ClickDepth - 1 of the clicked cell; and a timeout of depth 1 visits its
\* neighbours with depth 0: it records nothing and schedules nothing.
DepthBound ==
  /\ [](\A k \in 1 .. Len(timers) :
          /\ InGrid(timers[k].i, timers[k].j)
          /\ timers[k].depth >= 1
          /\ timers[k].depth <= ClickDepth
          /\ Cheb(<<timers[k].i, timers[k].j>>, timers[k].org) <= ClickDepth - timers[k].depth)
  /\ [](wave.alone => \A c \in SeqToSet(glitchCells) : Cheb(c, wave.org) <= ClickDepth - 1)
  /\ [][(SpreadTimeout /\ Head(timers).depth = 1)
          => (glitchCells' = glitchCells /\ timers' = Tail(timers))]_vars

\* a wave that reached distance 2 from its origin while a filled cell at
\* distance 3 stayed out of it
DepthBoundWitness ==
  /\ wave.alone
  /\ timers = <<>>
  /\ \E c \in SeqToSet(glitchCells) : Cheb(c, wave.org) = ClickDepth - 1
  /\ \E d \in Cells : grid[d] /\ Cheb(d, wave.org) = ClickDepth /\ d \notin SeqToSet(glitchCells)

RECURSIVE Reach(_, _)
\* filled cells joined to the cell org by a path of at most n steps through
\* pairwise 8-adjacent filled cells
Reach(org, n) ==
  IF n = 0 THEN {c \in {org} : grid[c]}
  ELSE LET R == Reach(org, n - 1)
       IN  R \cup {d \in Cells : grid[d] /\ \E c \in R : Cheb(c, d) = 1}

\* C3 (wave result): after a playing-mode click made with no earlier wave
\* pending, with the grid unchanged since and the session still active, once
\* every spread timeout has run the set of cells in glitchCells is exactly
\* the set of filled cells within ClickDepth - 1 steps of the clicked cell
\* along 8-adjacent filled cells (empty if the clicked cell is unfilled).
WaveResult ==
  (glitchActive /\ wave.alone /\ wave.still /\ timers = <<>>)
    => SeqToSet(glitchCells) = Reach(wave.org, ClickDepth - 1)

\* a finished undisturbed wave of three cells with a filled cell left out
WaveResultWitness ==
  /\ glitchActive /\ wave.alone /\ wave.still /\ timers = <<>>
  /\ Cardinality(SeqToSet(glitchCells)) = 3
  /\ \E d \in Cells : grid[d] /\ d \notin SeqToSet(glitchCells)

\* C4 (session start/restart): a click on the grid while playing, whether the
\* session is idle or active, ends with glitchActive and glitchOverlayActive
\* true, glitchStart and glitchOverlayStart equal to the click time, and
\* glitchCells holding exactly the clicked cell if it is filled, else nothing.
SessionRestart ==
  [][(ClickStep /\ playing) =>
       /\ glitchActive' /\ glitchOverlayActive'
       /\ glitchStart' = now /\ glitchOverlayStart' = now
       /\ wave'.org \in Cells
       /\ glitchCells' = IF grid[wave'.org] THEN <<wave'.org>> ELSE <<>>]_vars

\* just after a second playing click, made 40 ms after the first while the
\* first wave had recorded two cells and still had a timeout pending
SessionRestartWitness ==
  /\ nClicks = 2 /\ glitchActive /\ ~wave.alone
  /\ now = SpreadDelay /\ glitchStart = now /\ glitchOverlayStart = now
  /\ glitchCells = <<wave.org>>
  /\ \E k \in 1 .. Len(timers) : timers[k].org # wave.org

\* C5 (beat spike detection): a frame sets flash counters if and only if
\* the level it samples exceeds the level of the preceding frame (0 before
\* the first) by more than 0.1: when lastLevel rises by more than the
\* threshold some cell is set to FlashFrames, at most flashCount of them;
\* otherwise no counter is raised.  flashCount and lastLevel always come from
\* the same sample, beat or not; levels 0.1 then 0.35 give intensity 13.
BeatSpike ==
  [][/\ (lastLevel' - lastLevel > BeatThreshold =>
           /\ \E c \in Cells : beatFlash'[c] = FlashFrames
           /\ Cardinality({c \in Cells : beatFlash'[c] = FlashFrames}) <= flashCount')
     /\ (lastLevel' - lastLevel <= BeatThreshold =>
           \A c \in Cells : beatFlash'[c] <= beatFlash[c])
     /\ flashCount' = (lastLevel' * 15) \div 400
     /\ ((lastLevel = 100 /\ lastLevel' = 350) => flashCount' = 13)]_vars

\* a beat at level 0.35 has just set a cell flashing
BeatSpikeWitness ==
  /\ lastLevel = 350 /\ flashCount = 13
  /\ \E c \in Cells : beatFlash[c] = FlashFrames

\* C6 (intensity clamp): flashCount is floor(level / 0.4 * 15) for levels up
\* to 0.4 and 15 above; it never exceeds 15.
IntensityClamp ==
  flashCount = IF lastLevel <= 400 THEN (lastLevel * 15) \div 400 ELSE 15

\* C7 (flash countdown): every flash counter is an integer in 0..4; a frame
\* leaves each counter either set to 4 by a beat or one below its previous
\* value, and 0 stays 0.
FlashCountdown ==
  /\ [](\A c \in Cells : beatFlash[c] \in 0 .. FlashFrames)
  /\ [][FrameStep =>
          \A c \in Cells :
            \/ beatFlash'[c] = FlashFrames /\ lastLevel' - lastLevel > BeatThreshold
            \/ beatFlash'[c] = IF beatFlash[c] > 0 THEN beatFlash[c] - 1 ELSE 0]_vars

\* a counter three frames into its countdown next to one that ran out
FlashCountdownWitness ==
  \E c, d \in Cells : beatFlash[c] = 1 /\ beatFlash[d] = 0 /\ lastLevel = 0

\* C8 (click toggling while paused): a click on the grid with playing false
\* flips exactly the clicked cell and leaves every other cell as it was;
\* flipping the same cell twice gives back the grid.
ClickToggling ==
  /\ [][(ClickStep /\ ~playing) =>
          \E c \in Cells :
            grid' = [d \in Cells |-> IF d = c THEN ~grid[d] ELSE grid[d]]]_vars
  /\ [](\A c \in Cells : Toggle(Toggle(grid, c), c) = grid)

\* two paused clicks and no playing click have left the grid as set up
ClickTogglingWitness ==
  /\ nClicks = 2 /\ wave.org = NoCell
  /\ grid = [c \in Cells |-> FALSE]

\* C9 (click mode split): a click on the grid while playing changes no
\* cell's fill and activates the session and the overlay; a click while
\* paused changes none of glitchActive, glitchStart, glitchCells,
\* glitchOverlayActive, glitchOverlayStart and schedules no spread timeout.
ClickModeSplit ==
  [][ClickStep =>
       IF playing
       THEN grid' = grid /\ glitchActive' /\ glitchOverlayActive'
       ELSE UNCHANGED <<glitchActive, glitchStart, glitchCells,
                        glitchOverlayActive, glitchOverlayStart, timers>>]_vars

\* a paused click has changed the grid under an active session whose wave
\* still has timeouts pending
ClickModeSplitWitness ==
  /\ ~playing /\ glitchActive /\ timers # <<>>
  /\ wave.org \in Cells /\ ~wave.still
  /\ glitchCells # <<>>

\* C10 (session expiry): the session goes Idle -> Active only by a playing
\* click and Active -> Idle only by a frame at which
\* now > glitchStart + glitchDuration, which also empties glitchCells; a
\* frame at such a time always ends an active session; and with the frame
\* loop running an active session past its duration becomes idle unless a
\* click restarts it.
SessionExpiry ==
  /\ [][(~glitchActive /\ glitchActive') => (ClickStep /\ playing)]_vars
  /\ [][(glitchActive /\ ~glitchActive') =>
          (now > glitchStart + glitchDuration /\ glitchCells' = <<>> /\ FrameStep)]_vars
  /\ [][(FrameStep /\ glitchActive /\ now > glitchStart + glitchDuration)
          => ~glitchActive']_vars
  /\ ((glitchActive /\ now > glitchStart + glitchDuration)
        ~> (~glitchActive \/ now <= glitchStart + glitchDuration))

\* a session that was started by a click and has expired
SessionExpiryWitness ==
  /\ ~glitchActive /\ wave.org \in Cells
  /\ now > glitchStart + glitchDuration
  /\ glitchCells = <<>>

\* C11 (overlay window): Idle -> Active -> Idle: once the overlay duration
\* has elapsed since the click that set glitchOverlayActive, the frame
\* rendered then leaves the flag false.
OverlayReturnsIdle ==
  [][(FrameStep /\ glitchOverlayActive
        /\ now - glitchOverlayStart >= glitchOverlayDuration)
       => ~glitchOverlayActive']_vars

\* C12 (partition normalization): after every recompute the column widths
\* sum to the canvas width and the row heights to the canvas height, every
\* width and height is strictly positive, and the normalising sum (the
\* denominator) is not zero.
PartitionNormalized ==
  /\ colWidths.den > 0
  /\ \A k \in 0 .. cols - 1 : colWidths.num[k] > 0
  /\ SumTo(colWidths.num, cols) = width * colWidths.den
  /\ rowHeights.den > 0
  /\ \A k \in 0 .. rows - 1 : rowHeights.num[k] > 0
  /\ SumTo(rowHeights.num, rows) = height * rowHeights.den

\* a partition whose columns differ by more than the canvas width over cols
PartitionNormalizedWitness ==
  \E j, k \in 0 .. cols - 1 :
    (colWidths.num[k] - colWidths.num[j]) * cols > width * colWidths.den

\* C13 (partition degeneracy): with the strength slider at 0 every
\* recomputed partition is uniform: each column width is width / cols and
\* each row height is height / rows, and the normalising sum is not zero.
UniformPartition ==
  /\ colWidths.den > 0
  /\ \A k \in 0 .. cols - 1 : colWidths.num[k] * cols = width * colWidths.den
  /\ rowHeights.den > 0
  /\ \A k \in 0 .. rows - 1 : rowHeights.num[k] * rows = height * rowHeights.den

\* frames have run at strength 0 (t has advanced with them)
UniformPartitionWitness == t = MaxT /\ lastLevel = 0 /\ playing

\* is position m inside slot k of partition p: prefix sum <= m < prefix sum + size
InSlot(p, k, m) == m * p.den >= SumTo(p.num, k) /\ m * p.den < SumTo(p.num, k + 1)

\* the cells whose column interval holds x and whose row interval holds y
CellsAt(x, y) == {c \in Cells : InSlot(colWidths, c[1], x) /\ InSlot(rowHeights, c[2], y)}

\* the scan of mousePressed finds slot k exactly when k's interval holds the
\* position, and finds none exactly when the position is off the canvas
LocateIsSlot ==
  /\ \A x \in ClickXs :
       /\ \A k \in 0 .. cols - 1 :
            InSlot(colWidths, k, x) <=> Locate(colWidths, cols, x, 0) = k
       /\ Locate(colWidths, cols, x, 0) = -1 <=> (x < 0 \/ x >= width)
  /\ \A y \in ClickYs :
       /\ \A k \in 0 .. rows - 1 :
            InSlot(rowHeights, k, y) <=> Locate(rowHeights, rows, y, 0) = k
       /\ Locate(rowHeights, rows, y, 0) = -1 <=> (y < 0 \/ y >= height)

\* C14 (click mapping): a click at (x, y) falls in at most one cell, the one
\* whose column interval holds x and whose row interval holds y, and the
\* scan of mousePressed finds exactly that cell; the click acts on that cell;
\* a position is in no interval exactly when it is off the canvas, and such
\* a click changes nothing: grid, glitch session, overlay window, glitch
\* cells and pending spread timeouts stay as they are, playing or paused.
ClickMapping ==
  /\ []LocateIsSlot
  /\ [][\A x \in ClickXs, y \in ClickYs :
          mousePressed(x, y) =>
            /\ Cardinality(CellsAt(x, y)) <= 1
            /\ \A c \in CellsAt(x, y) :
                 IF playing
                 THEN wave'.org = c /\ glitchActive' /\ glitchOverlayActive' /\ grid' = grid
                 ELSE grid' = [grid EXCEPT ![c] = ~grid[c]]
            /\ CellsAt(x, y) = {} =>
                 UNCHANGED <<grid, glitchActive, glitchStart, glitchCells, timers,
                             glitchOverlayActive, glitchOverlayStart>>]_vars

\* both clicks made on a partition that gives the first column more than
\* half the canvas: a paused click has filled a cell and a playing click has
\* started a wave from it
ClickMappingWitness ==
  /\ nClicks = MaxClicks
  /\ InSlot(colWidths, 0, width \div 2)
  /\ wave.org \in Cells /\ grid[wave.org]
  /\ timers # <<>>

\* C15 (Clear): the only step besides a click that changes the grid is
\* Clear; it leaves every cell unfilled and leaves the flash counters, the
\* glitch session, the overlay window, playing, t, the clock and the pending
\* timeouts as they are; Clear can be pressed in every state, playing or
\* paused.
ClearEffect ==
  /\ [][(grid' # grid /\ ~ClickStep) =>
          /\ \A c \in Cells : ~grid'[c]
          /\ UNCHANGED <<beatFlash, glitchActive, glitchStart, glitchCells,
                         glitchOverlayActive, glitchOverlayStart, playing, t, now,
                         timers, lastLevel, flashCount, colWidths, rowHeights,
                         bgMusic, pauseTimers>>]_vars
  /\ [](ENABLED Clear)

\* Clear pressed while playing, with a glitch session holding cells and a
\* flash counter running: the grid is empty, the rest is still there
ClearEffectWitness ==
  /\ nClicks = MaxClicks
  /\ \A c \in Cells : ~grid[c]
  /\ playing /\ glitchActive /\ glitchCells # <<>> /\ timers # <<>>
  /\ glitchOverlayActive
  /\ \E c \in Cells : beatFlash[c] > 0

\* the filled in-range neighbours of the cell of timeout h, in the order of
\* the two loops; none when no depth remains for them
FilledNeighbours(h) ==
  IF h.depth - 1 <= 0 THEN <<>>
  ELSE SelectSeq([k \in 1 .. Len(Offsets) |->
                    <<h.i + Offsets[k][1], h.j + Offsets[k][2]>>],
                 LAMBDA c : InGrid(c[1], c[2]) /\ grid[c])

\* C16 (no cancellation): no step removes a pending spread timeout except
\* its own firing, in particular not the frame that expires the session nor
\* the click that restarts it; and whatever the state of the session, the
\* timeout that fires appends every filled in-range neighbour with
\* remaining depth > 0 to the current glitchCells and schedules it.
NoCancellation ==
  [][IF IsPrefix(timers, timers')
     THEN TRUE
     ELSE /\ timers # <<>> /\ Head(timers).due <= now
          /\ glitchCells' = glitchCells \o FilledNeighbours(Head(timers))
          /\ Len(timers') = Len(timers) - 1 + Len(FilledNeighbours(Head(timers)))
          /\ IsPrefix(Tail(timers), timers')
          /\ \A k \in 1 .. Len(FilledNeighbours(Head(timers))) :
               LET n == timers'[Len(timers) - 1 + k]
               IN  /\ <<n.i, n.j>> = FilledNeighbours(Head(timers))[k]
                   /\ n.depth = Head(timers).depth - 1]_vars

\* the live session's glitchCells hold a cell out of reach of the click that
\* started it: a timeout of the wave before the restart has put it there
NoCancellationWitness ==
  /\ glitchActive /\ wave.org \in Cells
  /\ \E k \in 1 .. Len(glitchCells) : Cheb(glitchCells[k], wave.org) >= ClickDepth

\* C18 (idle session holds no cells): in every reachable state
\* glitchActive = false implies that glitchCells is empty.
IdleHasNoCells == ~glitchActive => glitchCells = <<>>

\* C17 (render priority): a frame draws each cell in exactly one mode: flash
\* if its flash counter is > 0; else glitch-jitter if the session is active
\* and the cell is in glitchCells; else inverted if the session is active;
\* else normal.  The counter is decremented exactly for the cells drawn in
\* flash mode.  A frame never changes the grid, and changes glitchCells only
\* by emptying it when it expires the session.
RenderPriority ==
  /\ [](\A c \in Cells :
          LET live == glitchActive /\ ~Expired
              inSet == \E k \in 1 .. Len(glitchCells) : glitchCells[k] = c
          IN  /\ Rendered[c] \in {"flash", "glitch", "inverted", "normal"}
              /\ Rendered[c] = "flash" <=> beatFlash[c] > 0
              /\ Rendered[c] = "glitch" <=> (beatFlash[c] = 0 /\ live /\ inSet)
              /\ Rendered[c] = "inverted" <=> (beatFlash[c] = 0 /\ live /\ ~inSet)
              /\ Rendered[c] = "normal" <=> (beatFlash[c] = 0 /\ ~live))
  /\ [][FrameStep =>
          /\ grid' = grid
          /\ glitchCells' = glitchCells \/ (Expired /\ glitchCells' = <<>>)
          /\ \A c \in Cells :
               IF Rendered[c] = "flash"
               THEN beatFlash'[c] \in {beatFlash[c] - 1, FlashFrames}
               ELSE beatFlash'[c] \in {beatFlash[c], FlashFrames}]_vars

\* the clicked cell is in the live session's glitchCells and its flash
\* counter is running, so it is drawn in flash mode; other cells are drawn
\* inverted
RenderPriorityWitness ==
  /\ glitchActive /\ glitchCells # <<>>
  /\ beatFlash[glitchCells[1]] > 0
  /\ Rendered[glitchCells[1]] = "flash"
  /\ \E c \in Cells : Rendered[c] = "inverted"

\* C19 (play/pause consistency): whenever playing = true and no pause
\* timeout is pending, the background track is looping: a pause scheduled
\* by an earlier Pause press does not stop the track after a later Play.
TrackFollowsPlaying == (playing /\ pauseTimers = <<>>) => bgMusic = "looping"

\* C20 (wave termination): every pending spread timeout has a depth in
\* 1 .. ClickDepth, the timeouts scheduled when one fires have a strictly
\* smaller depth than it, and whenever spread timeouts are pending the
\* queue eventually becomes empty.
WaveTermination ==
  /\ [](\A k \in 1 .. Len(timers) : timers[k].depth \in 1 .. ClickDepth)
  /\ [][(~ClickStep /\ timers' # timers) =>
          /\ timers # <<>>
          /\ IsPrefix(Tail(timers), timers')
          /\ \A k \in Len(timers) .. Len(timers') :
               timers'[k].depth < Head(timers).depth]_vars
  /\ (timers # <<>>) ~> (timers = <<>>)

\* both clicks made, the waves have run to depth 1 and no timeout is left
WaveTerminationWitness ==
  /\ nClicks = MaxClicks /\ timers = <<>>
  /\ wave.org \in Cells
  /\ \E k \in 1 .. Len(glitchCells) : Cheb(glitchCells[k], wave.org) = ClickDepth - 1

====
